---------------------------- MODULE Spec2Model ----------------------------
(***************************************************************************)
(* Model of the Polymarket copy trader                                     *)
(*   src/agents/polymarket/copy_trader.py  (PolymarketCopyTrader)          *)
(*                                                                         *)
(* Units.  Time is counted in whole hours of the local wall clock          *)
(* (datetime.datetime.now()).  A trade's size is in whole units, its price *)
(* in tenths.  trade_value is therefore carried in tenths of a USD and     *)
(* copy_amount (trade_value * copy_percentage, copy_percentage in tenths)  *)
(* in hundredths of a USD, so that every product the code computes in      *)
(* floating point is an exact integer here.  The configured amounts        *)
(* (min_amount_to_copy, max_amount_to_copy, max_daily_amount, min_pnl) are *)
(* in whole USD, as in the configuration file.  A trader's pnl is in       *)
(* hundredths of a USD and a win rate in hundredths.                       *)
(***************************************************************************)
EXTENDS Integers, Sequences, FiniteSets, TLC

VARIABLES
    config,            \* self.config
    watched_traders,   \* self.watched_traders (a list; also config["watched_traders"])
    last_check_time,   \* self.last_check_time (dict address -> wall-clock time)
    trade_history,     \* self.trade_history (dict market_id -> list of records)
    now,               \* the wall clock read by datetime.datetime.now()
    trade_time,        \* the exchange: trade id -> match time, for the trades made so far
    pc,                \* position of the process in main / monitor_traders
    traders_to_check,  \* monitor_traders: the rest of the shuffled copy of the watch list
    recent_trades,     \* monitor_traders: the rest of the trades of the current poll
    analysis,          \* monitor_traders: the last result of analyze_trade, or NoAnalysis
    cache,             \* data/analytics_cache/<source>_top_traders.json, per source
    last_traders_update, \* data/copy_trader/last_traders_update.txt, or NoUpdate
    config_file,       \* the "watched_traders" list of the configuration file on disk
                       \* (its other entries are those of config)
    orders,            \* the order gateway: the number of calls of polymarket.execute_order
    order,             \* execute_copy_trade: the arguments of its call of execute_order
                       \* (lines 355-360), NoOrder when it made none
    result,            \* monitor_traders: trade_id, what execute_copy_trade returned (line 455)
    delay,             \* monitor_traders: delay, what line 455 slept before that call, in
                       \* tenths of a second
    failed,            \* the order gateway: the source trades whose order it refused
    aggregation        \* the last call of analytics.get_recommended_traders by a client of
                       \* PolymarketAnalytics: its arguments, its locals and the list it
                       \* returned; NoAggregation before the first call

vars == <<config, watched_traders, last_check_time, trade_history, now,
          trade_time, pc, traders_to_check, recent_trades, analysis,
          cache, last_traders_update, config_file, orders, order, result, delay,
          failed, aggregation>>

(***************************************************************************)
(* Bounds of the model.                                                    *)
(***************************************************************************)
MaxTime == 1       \* the wall clock is read in 0 .. MaxTime
MaxLedger == 3     \* at most this many orders are made, and records written to trade_history
MaxWatched == 2    \* at most this many addresses are put on the watch list

(***************************************************************************)
(* Values.                                                                 *)
(***************************************************************************)
\* An address is the number its hexadecimal string denotes.
Addresses == {1, 2}
Markets == {"m1", "m2"}
NoAnalysis == [should_copy |-> FALSE, none |-> TRUE]
NoOrder == [none |-> TRUE]
None == "None"
NoResult == "unset"
NoDelay == -1
\* a size or price that is no number (null, a word): float() raises on it
NotANumber == -999
OrderIds == {"o1"}

Min(a, b) == IF a <= b THEN a ELSE b

RECURSIVE SeqSum(_)
SeqSum(s) == IF s = <<>> THEN 0 ELSE Head(s) + SeqSum(Tail(s))

RECURSIVE Flatten(_, _)
\* the records of trade_history h over the markets ms, as one sequence
Flatten(h, ms) ==
    IF ms = {} THEN <<>>
    ELSE LET m == CHOOSE x \in ms : TRUE
         IN h[m] \o Flatten(h, ms \ {m})

\* every record of the ledger (trade_history.values(), concatenated)
AllRecords(h) == Flatten(h, DOMAIN h)

\* the calendar day of a time stamp (24 hours a day)
Day(t) == t \div 24

(***************************************************************************)
(* analyze_trade, copy_trader.py lines 281-327.                            *)
(***************************************************************************)
\* line 299 with size * price for either side
trade_value_notional(trade) == trade.size * trade.price

\* line 299: trade_value = size * price if side == "SELL" else size   (tenths of a USD)
trade_value(trade) ==
    IF trade.side = "SELL" THEN trade.size * trade.price ELSE trade.size * 10

\* should_copy without the minimum-amount gate of line 303
should_copy_no_minimum(trade, cfg) ==
    /\ trade.market \notin cfg.blacklisted_markets
    /\ (~cfg.whitelist_only \/ trade.market \in cfg.whitelisted_markets)
    /\ \/ (trade.side = "BUY" /\ cfg.copy_buys)
       \/ (trade.side = "SELL" /\ cfg.copy_sells)

\* should_copy without the black list gate of line 304
should_copy_no_blacklist(trade, cfg) ==
    /\ trade_value(trade) >= cfg.min_amount_to_copy * 10
    /\ (~cfg.whitelist_only \/ trade.market \in cfg.whitelisted_markets)
    /\ \/ (trade.side = "BUY" /\ cfg.copy_buys)
       \/ (trade.side = "SELL" /\ cfg.copy_sells)

\* should_copy without the white list gate of lines 305-306
should_copy_no_whitelist(trade, cfg) ==
    /\ trade_value(trade) >= cfg.min_amount_to_copy * 10
    /\ trade.market \notin cfg.blacklisted_markets
    /\ \/ (trade.side = "BUY" /\ cfg.copy_buys)
       \/ (trade.side = "SELL" /\ cfg.copy_sells)

\* should_copy with one switch for both sides in lines 307-308
should_copy_either_side(trade, cfg) ==
    /\ trade_value(trade) >= cfg.min_amount_to_copy * 10
    /\ trade.market \notin cfg.blacklisted_markets
    /\ (~cfg.whitelist_only \/ trade.market \in cfg.whitelisted_markets)
    /\ trade.side \in {"BUY", "SELL"}
    /\ (cfg.copy_buys \/ cfg.copy_sells)

\* lines 302-309
should_copy(trade, cfg) ==
    /\ trade_value(trade) >= cfg.min_amount_to_copy * 10
    /\ trade.market \notin cfg.blacklisted_markets
    /\ (~cfg.whitelist_only \/ trade.market \in cfg.whitelisted_markets)
    /\ \/ (trade.side = "BUY" /\ cfg.copy_buys)
       \/ (trade.side = "SELL" /\ cfg.copy_sells)

\* copy_amount without the cap of line 317
copy_amount_uncapped(trade, cfg) ==
    trade_value(trade) * cfg.copy_percentage

\* lines 313-317 with the cap put on trade_value, before the percentage is taken
copy_amount_capped_value(trade, cfg) ==
    Min(trade_value(trade), cfg.max_amount_to_copy * 10) * cfg.copy_percentage

\* lines 311-317: copy_amount = min(trade_value * copy_percentage, max_amount)  (hundredths)
copy_amount(trade, cfg) ==
    Min(trade_value(trade) * cfg.copy_percentage, cfg.max_amount_to_copy * 100)

\* analyze_trade approving only the last trade of a poll
analyze_trade_by_position(trade, cfg) ==
    [original_trade |-> trade,
     should_copy    |-> should_copy(trade, cfg) /\ Len(recent_trades) = 1,
     copy_amount    |-> copy_amount(trade, cfg),
     market_id      |-> trade.market,
     asset_id       |-> trade.asset_id,
     side           |-> trade.side,
     price          |-> trade.price]

\* lines 319-327: the returned dict
analyze_trade(trade, cfg) ==
    [original_trade |-> trade,
     should_copy    |-> should_copy(trade, cfg),
     copy_amount    |-> copy_amount(trade, cfg),
     market_id      |-> trade.market,
     asset_id       |-> trade.asset_id,
     side           |-> trade.side,
     price          |-> trade.price]


(***************************************************************************)
(* The exchange (external): the trades that watched accounts may make.     *)
(* self.polymarket.client.get_trades is the exchange's trade-history query.*)
(***************************************************************************)
T1 == [id |-> "t1", market |-> "m1", asset_id |-> "y1", side |-> "BUY",
       size |-> 20, price |-> 5, maker_address |-> 1, taker |-> 2]
T2 == [id |-> "t2", market |-> "m1", asset_id |-> "y1", side |-> "SELL",
       size |-> 20, price |-> 5, maker_address |-> 2, taker |-> 2]
T3 == [id |-> "t3", market |-> "m2", asset_id |-> "y2", side |-> "BUY",
       size |-> 1, price |-> 5, maker_address |-> 1, taker |-> 9]
\* a trade whose size the exchange reports as text that is no number
T4 == [id |-> "t4", market |-> "m1", asset_id |-> "y1", side |-> "BUY",
       size |-> NotANumber, price |-> 5, maker_address |-> 1, taker |-> 9]
T5 == [id |-> "t5", market |-> "m2", asset_id |-> "y2", side |-> "BUY",
       size |-> 20, price |-> 5, maker_address |-> 2, taker |-> 9]
TradeList == <<T1, T2, T3, T4, T5>>
TradeIds == {"t1", "t2", "t3"}

\* get_trades(TradeParams(maker_address = a, after = ts)): lines 256-261
trades_as_maker(a, after) ==
    SelectSeq(TradeList, LAMBDA t : /\ t.id \in DOMAIN trade_time
                                    /\ t.maker_address = a
                                    /\ trade_time[t.id] > after)

\* get_trades(TradeParams(taker = a, after = ts)): lines 264-269
trades_as_taker(a, after) ==
    SelectSeq(TradeList, LAMBDA t : /\ t.id \in DOMAIN trade_time
                                    /\ t.taker = a
                                    /\ trade_time[t.id] > after)

(***************************************************************************)
(* The watch list: add_watched_trader (138-153), remove_watched_trader     *)
(* (155-172).  Each returns the new <<watched_traders, last_check_time>>.  *)
(***************************************************************************)
InList(a, s) == \E i \in 1..Len(s) : s[i] = a

\* list.remove(x): removes the first occurrence
ListRemove(s, a) ==
    LET i == CHOOSE k \in 1..Len(s) : s[k] = a /\ \A j \in 1..(k-1) : s[j] # a
    IN SubSeq(s, 1, i-1) \o SubSeq(s, i+1, Len(s))

\* dict assignment d[k] = v
DictSet(d, k, v) == [x \in DOMAIN d \cup {k} |-> IF x = k THEN v ELSE d[x]]

\* del d[k]
DictDel(d, k) == [x \in DOMAIN d \ {k} |-> d[x]]

\* lines 55 and 147: datetime.datetime.now() - datetime.timedelta(minutes=60)
InitialCheckTime == now - 1

\* add_watched_trader without the membership test of line 145
add_watched_trader_unchecked(wt, lct, cf, a) ==
    <<Append(wt, a), DictSet(lct, a, InitialCheckTime), Append(wt, a)>>

\* add_watched_trader that, for an address already on the list, sets its check
\* time anew and saves the configuration
add_watched_trader_again(wt, lct, cf, a) ==
    IF ~InList(a, wt)
    THEN <<Append(wt, a), DictSet(lct, a, InitialCheckTime), Append(wt, a)>>
    ELSE <<wt, DictSet(lct, a, InitialCheckTime), wt>>

\* Gives the new watched_traders, last_check_time and saved watch list (cf is
\* the one on disk before the call): _save_config runs only in the branch of line 145.
add_watched_trader(wt, lct, cf, a) ==
    IF ~InList(a, wt)
    THEN <<Append(wt, a), DictSet(lct, a, InitialCheckTime), Append(wt, a)>>
    ELSE <<wt, lct, cf>>

\* remove_watched_trader without lines 163-164: the check time stays
remove_watched_trader_keeps_time(wt, lct, cf, a) ==
    IF InList(a, wt)
    THEN <<ListRemove(wt, a), lct, ListRemove(wt, a)>>
    ELSE <<wt, lct, cf>>

\* lines 155-172; gives the new watched_traders, last_check_time and saved
\* watch list
remove_watched_trader(wt, lct, cf, a) ==
    IF InList(a, wt)
    THEN <<ListRemove(wt, a), IF a \in DOMAIN lct THEN DictDel(lct, a) ELSE lct,
           ListRemove(wt, a)>>
    ELSE <<wt, lct, cf>>

(***************************************************************************)
(* Analytics: analytics.py, PolymarketAnalytics.                           *)
(***************************************************************************)
Sources == {"polymarketanalytics", "polymarketwhales", "subgraph"}
NoCache == [exists |-> FALSE, data |-> <<>>]
NoAggregation == [none |-> TRUE]
NoUpdate == -100
TopCount == 20

Take(s, n) == SubSeq(s, 1, Min(n, Len(s)))

\* _get_placeholder_traders, analytics.py lines 326-354
get_placeholder_traders(source, count) ==
    LET prefix == IF source = "polymarketanalytics" THEN 100
                  ELSE IF source = "polymarketwhales" THEN 200 ELSE 300
    IN [i \in 1..count |-> [address  |-> i + prefix,
                            pnl      |-> 10000000 \div i,
                            win_rate |-> 80 - 2 * i]]

\* get_top_traders, analytics.py lines 49-93.  entry is the source's cache file,
\* fresh whether its age is below cache_expiry, reply what the source's fetch
\* returns (<<>> when the request fails).  Gives the list returned and the
\* cache file afterwards.
get_top_traders(source, count, entry, fresh, reply) ==
    IF entry.exists /\ fresh
    THEN [traders |-> Take(entry.data, count), cache |-> entry]
    ELSE LET traders == IF reply = <<>> /\ ~entry.exists
                        THEN get_placeholder_traders(source, count)
                        ELSE reply
         IN [traders |-> Take(traders, count),
             cache   |-> IF traders # <<>>
                         THEN [exists |-> TRUE, data |-> traders]
                         ELSE entry]

RECURSIVE UniqueLastSeen(_, _)
\* the records by address when a later record of an address replaces the earlier
\* one (a dict keeps the place of the first insertion)
UniqueLastSeen(s, seen) ==
    IF s = <<>> THEN <<>>
    ELSE IF Head(s).address \in seen THEN UniqueLastSeen(Tail(s), seen)
    ELSE LET same == SelectSeq(s, LAMBDA t : t.address = Head(s).address)
         IN <<same[Len(same)]>> \o UniqueLastSeen(Tail(s), seen \cup {Head(s).address})

RECURSIVE Unique(_, _)
\* analytics.py lines 488-491: the first record of each address, in order of first occurrence
Unique(s, seen) ==
    IF s = <<>> THEN <<>>
    ELSE IF Head(s).address \in seen THEN Unique(Tail(s), seen)
    ELSE <<Head(s)>> \o Unique(Tail(s), seen \cup {Head(s).address})

\* the truth value Python gives a float in "x and ..." and "x if x else 0".  Every
\* TraderInfo the three fetches, the placeholders and the cache files give has a
\* float for pnl and win_rate (float(item.get("pnl", 0)): 0 when the source's
\* item has none), so None does not occur.
Truthy(x) == x # 0

\* line 501: key = lambda x: x.pnl if x.pnl else 0
SortKey(t) == IF Truthy(t.pnl) THEN t.pnl ELSE 0

\* analytics.py line 501, list.sort(key = SortKey, reverse = True): the sort is
\* stable, so s[i] comes after the records of a higher key and after the
\* records of the same key that stand before it in s
\* Before(key)[i] is the number of records the sort puts before the i-th
\* (<<>> \o f is the function f on 1..n as a sequence)
Before(key) ==
    <<>> \o [i \in 1..Len(key) |->
                Cardinality({j \in 1..Len(key) : \/ key[j] > key[i]
                                                 \/ key[j] = key[i] /\ j < i})]

Arrange(s, before) ==
    <<>> \o [p \in 1..Len(s) |-> s[CHOOSE i \in 1..Len(s) : before[i] = p - 1]]

SortDesc(s) == Arrange(s, Before(<<>> \o [i \in 1..Len(s) |-> SortKey(s[i])]))

\* analytics.py lines 494-498: "t.win_rate and ..." is false for a rate of 0, and
\* so is "t.pnl and ..."
Recommended(t, min_win_rate, min_pnl) ==
    /\ Truthy(t.win_rate)
    /\ t.win_rate >= min_win_rate
    /\ Truthy(t.pnl)
    /\ t.pnl >= min_pnl * 100

\* get_recommended_traders, analytics.py lines 468-503, given the three lists
\* that get_top_traders returned
get_recommended_traders(pma_traders, pmw_traders, subgraph_traders, min_win_rate, min_pnl) ==
    LET all_traders == pma_traders \o pmw_traders \o subgraph_traders
        unique_traders == Unique(all_traders, {})
        recommended == SelectSeq(unique_traders,
                                 LAMBDA t : Recommended(t, min_win_rate, min_pnl))
    IN SortDesc(recommended)

\* the list get_recommended_traders returns for the cache files ch, with fresh
\* and reply giving each source's cache age and fetch result
recommended_traders(ch, fresh, reply, min_win_rate, min_pnl) ==
    LET top(src) == get_top_traders(src, TopCount, ch[src], fresh[src], reply[src])
    IN get_recommended_traders(top("polymarketanalytics").traders,
                               top("polymarketwhales").traders,
                               top("subgraph").traders,
                               min_win_rate, min_pnl)

RECURSIVE AddRecommended_counting_watched(_, _, _, _, _)
\* the loop of lines 195-199 without the test "not in self.watched_traders": a
\* recommended address that is watched already counts as added
AddRecommended_counting_watched(wt, lct, cf, recommended, left) ==
    IF recommended = <<>> THEN <<wt, lct, cf>>
    ELSE LET a == Head(recommended).address
         IN IF left > 0
            THEN LET r == add_watched_trader(wt, lct, cf, a)
                 IN AddRecommended_counting_watched(r[1], r[2], r[3], Tail(recommended),
                                                    left - 1)
            ELSE AddRecommended_counting_watched(wt, lct, cf, Tail(recommended), left)

RECURSIVE AddRecommended(_, _, _, _, _)
\* copy_trader.py lines 195-199: the loop over recommended; left = max_traders - added_count
AddRecommended(wt, lct, cf, recommended, left) ==
    IF recommended = <<>> THEN <<wt, lct, cf>>
    ELSE LET a == Head(recommended).address
         IN IF ~InList(a, wt) /\ left > 0
            THEN LET r == add_watched_trader(wt, lct, cf, a)
                 IN AddRecommended(r[1], r[2], r[3], Tail(recommended), left - 1)
            ELSE AddRecommended(wt, lct, cf, Tail(recommended), left)

\* update_traders_from_analytics, copy_trader.py lines 174-202, for the cache files
\* ch, with fresh and reply giving each source's cache age and fetch result.
\* Gives the new watched_traders, last_check_time, saved watch list and cache files.
update_traders_from_analytics(wt, lct, cf, ch, fresh, reply) ==
    IF ~config.analytics.enabled
    THEN [wt |-> wt, lct |-> lct, file |-> cf, cache |-> ch]
    ELSE LET top(src) == get_top_traders(src, TopCount, ch[src], fresh[src], reply[src])
             recommended == recommended_traders(ch, fresh, reply,
                                                config.analytics.min_win_rate,
                                                config.analytics.min_pnl)
             r == AddRecommended(wt, lct, cf, recommended,
                                 config.analytics.max_auto_traders)
         IN [wt |-> r[1], lct |-> r[2], file |-> r[3],
             cache |-> [src \in Sources |-> top(src).cache]]

\* should_update_traders without the test of the interval, lines 224-229
should_update_traders_any_time ==
    config.analytics.auto_update_traders

\* should_update_traders, copy_trader.py lines 204-229
should_update_traders ==
    IF ~config.analytics.auto_update_traders THEN FALSE
    ELSE IF last_traders_update = NoUpdate THEN TRUE
    ELSE now >= last_traders_update + config.analytics.update_interval_hours

\* What the analytics services return for a request of the top traders.
P1 == [address |-> 1, pnl |-> 9000000, win_rate |-> 80]
P2 == [address |-> 2, pnl |-> 7000000, win_rate |-> 75]
W1 == [address |-> 1, pnl |-> 6500000, win_rate |-> 90]
Replies(src) ==
    IF src = "polymarketanalytics" THEN {<<>>, <<P1, P2>>}
    ELSE IF src = "polymarketwhales" THEN {<<>>, <<W1>>}
    ELSE {<<>>}

(***************************************************************************)
(* The ledger: _record_copy_trade, lines 372-401.  The time stamp is kept  *)
(* to the calendar day.                                                    *)
(***************************************************************************)
\* _record_copy_trade leaving out the id of the order
record_copy_trade_no_id(h, an, trade_id) ==
    LET record == [timestamp       |-> Day(now),
                   original_trade  |-> an.original_trade,
                   copied_trade_id |-> None,
                   copy_amount     |-> an.copy_amount,
                   market_id       |-> an.market_id,
                   asset_id        |-> an.asset_id,
                   side            |-> an.side,
                   price           |-> an.price]
        h1 == IF an.market_id \notin DOMAIN h THEN DictSet(h, an.market_id, <<>>) ELSE h
    IN [h1 EXCEPT ![an.market_id] = Append(@, record)]

\* _record_copy_trade assigning a new list to the market, and a new dict to
\* self.trade_history, in place of lines 393-396
record_copy_trade_alone(h, an, trade_id) ==
    LET record == [timestamp       |-> Day(now),
                   original_trade  |-> an.original_trade,
                   copied_trade_id |-> trade_id,
                   copy_amount     |-> an.copy_amount,
                   market_id       |-> an.market_id,
                   asset_id        |-> an.asset_id,
                   side            |-> an.side,
                   price           |-> an.price]
    IN [m \in {an.market_id} |-> <<record>>]

record_copy_trade(h, an, trade_id) ==
    LET record == [timestamp       |-> Day(now),
                   original_trade  |-> an.original_trade,
                   copied_trade_id |-> trade_id,
                   copy_amount     |-> an.copy_amount,
                   market_id       |-> an.market_id,
                   asset_id        |-> an.asset_id,
                   side            |-> an.side,
                   price           |-> an.price]
        h1 == IF an.market_id \notin DOMAIN h THEN DictSet(h, an.market_id, <<>>) ELSE h
    IN [h1 EXCEPT ![an.market_id] = Append(@, record)]

(***************************************************************************)
(* The process: main (531-545) and monitor_traders (403-475).              *)
(*   pc = "init"    constructed, monitor_traders not yet called            *)
(*        "loop"    at the top of the while loop (line 416)                *)
(*        "poll"    in the for loop over traders_to_check (line 434)       *)
(*        "process" in the for loop over recent_trades (line 442)          *)
(*        "execute" in the delay before execute_copy_trade (line 455)      *)
(*        "sleep"   in the sleep that ends a cycle (line 470)              *)
(*        "error"   in the handler of an exception of the cycle (line 473) *)
(*        "stopped" monitor_traders left by KeyboardInterrupt (line 544)    *)
(***************************************************************************)
loopLocals == <<traders_to_check, recent_trades, analysis>>
object == <<config, watched_traders, last_check_time, trade_history>>
files == <<cache, last_traders_update>>

\* the arguments of the last order and the last trade_id are not read again
Forget ==
    /\ order' = NoOrder
    /\ result' = NoResult
    /\ delay' = NoDelay

\* lines 292-293: float() refuses the size or the price of the trade
raises(trade) == trade.size = NotANumber \/ trade.price = NotANumber

\* the loops of lines 434 and 442 side by side: the next address is polled
\* before the trades left of the last one are analyzed
NextPc_address_first(trs, rts) ==
    IF trs # <<>> THEN "poll" ELSE IF rts # <<>> THEN "process" ELSE "sleep"

\* where the loops of lines 434 and 442 go next
NextPc(trs, rts) ==
    IF rts # <<>> THEN "process" ELSE IF trs # <<>> THEN "poll" ELSE "sleep"

\* the orders of a shuffle of list s (random.shuffle, line 432)
Shuffles(s) ==
    {p \in [1..Len(s) -> 1..Len(s)] : \A i, j \in 1..Len(s) : p[i] = p[j] => i = j}

\* a sample with replacement in place of the shuffle: one element, Len(s) times
Shuffled_sampled(s, p) == [i \in 1..Len(s) |-> s[p[1]]]

Shuffled(s, p) == [i \in 1..Len(s) |-> s[p[i]]]

\* cli.py line 174 / the API: add_watched_trader before monitoring starts
AddTrader(a) ==
    /\ pc = "init"
    /\ LET r == add_watched_trader(watched_traders, last_check_time, config_file, a)
       IN /\ Len(r[1]) <= MaxWatched
          /\ watched_traders' = r[1]
          /\ last_check_time' = r[2]
          /\ config_file' = r[3]
    /\ UNCHANGED <<config, trade_history, now, trade_time, orders, order, result, delay, failed, aggregation, pc, loopLocals, files>>

RemoveTrader(a) ==
    /\ pc = "init"
    /\ LET r == remove_watched_trader(watched_traders, last_check_time, config_file, a)
       IN /\ watched_traders' = r[1]
          /\ last_check_time' = r[2]
          /\ config_file' = r[3]
    /\ UNCHANGED <<config, trade_history, now, trade_time, orders, order, result, delay, failed, aggregation, pc, loopLocals, files>>

\* The answers of the analytics services to one update: per source, whether the
\* cache file is younger than cache_expiry and what a fetch returns.
Answers == [fresh : [Sources -> BOOLEAN],
            reply : {f \in [Sources -> UNION {Replies(src) : src \in Sources}] :
                        \A src \in Sources : f[src] \in Replies(src)}]

\* update_traders_from_analytics() under answers  ans
UpdateTraders(ans) ==
    LET u == update_traders_from_analytics(watched_traders, last_check_time, config_file,
                                           cache, ans.fresh, ans.reply)
    IN /\ Len(u.wt) <= MaxWatched
       /\ watched_traders' = u.wt
       /\ last_check_time' = u.lct
       /\ config_file' = u.file
       /\ cache' = u.cache

\* lines 411-414 and 419-422:
\*   if self.should_update_traders(): update_traders_from_analytics(); mark_traders_updated()
UpdateIfDue ==
    IF should_update_traders
    THEN /\ \E ans \in Answers : UpdateTraders(ans)
         /\ last_traders_update' = now
    ELSE UNCHANGED <<watched_traders, last_check_time, cache, last_traders_update,
                     config_file>>

\* cli.py lines 160-170: run-copy-trader --find-top-traders
FindTopTraders ==
    /\ pc = "init"
    /\ config.analytics.enabled
    /\ \E ans \in Answers : UpdateTraders(ans)
    /\ UNCHANGED <<config, trade_history, now, trade_time, orders, order, result, delay, failed, aggregation, pc, loopLocals,
                   last_traders_update>>

\* monitor_traders is called: lines 408-414
StartMonitor ==
    /\ pc = "init"
    /\ UpdateIfDue
    /\ pc' = "loop"
    /\ UNCHANGED <<config, trade_history, now, trade_time, orders, order, result, delay, failed, aggregation, loopLocals>>

\* lines 417-432: the top of a cycle
BeginCycle ==
    /\ pc = "loop"
    /\ UpdateIfDue
    /\ IF watched_traders' = <<>>
       THEN UNCHANGED <<pc, traders_to_check>>
       ELSE /\ \E p \in Shuffles(watched_traders') :
                   traders_to_check' = Shuffled(watched_traders', p)
            /\ pc' = "poll"
    /\ UNCHANGED <<config, trade_history, now, trade_time, orders, order, result, delay, failed, aggregation, recent_trades, analysis>>

\* get_recent_trades setting the cursor in its exception handler as well
PollTrader_cursor_always ==
    /\ pc = "poll"
    /\ traders_to_check # <<>>
    /\ LET trader == Head(traders_to_check)
           last_check == IF trader \in DOMAIN last_check_time
                         THEN last_check_time[trader] ELSE InitialCheckTime
       IN /\ \/ recent_trades' = trades_as_maker(trader, last_check)
                                   \o trades_as_taker(trader, last_check)
             \/ recent_trades' = <<>>
          /\ last_check_time' = DictSet(last_check_time, trader, now)
    /\ traders_to_check' = Tail(traders_to_check)
    /\ pc' = NextPc(traders_to_check', recent_trades')
    /\ Forget
    /\ UNCHANGED <<config, watched_traders, trade_history, now, trade_time, orders, failed,
                   aggregation, analysis, files, config_file>>

\* get_recent_trades without its exception handler: a failed fetch is caught by
\* the handler of the cycle
PollTrader_uncaught ==
    /\ pc = "poll"
    /\ traders_to_check # <<>>
    /\ LET trader == Head(traders_to_check)
           last_check == IF trader \in DOMAIN last_check_time
                         THEN last_check_time[trader] ELSE InitialCheckTime
       IN \/ /\ recent_trades' = trades_as_maker(trader, last_check)
                                   \o trades_as_taker(trader, last_check)
             /\ last_check_time' = DictSet(last_check_time, trader, now)
             /\ traders_to_check' = Tail(traders_to_check)
             /\ pc' = NextPc(traders_to_check', recent_trades')
          \/ /\ recent_trades' = <<>>
             /\ traders_to_check' = <<>>
             /\ pc' = "error"
             /\ UNCHANGED last_check_time
    /\ Forget
    /\ UNCHANGED <<config, watched_traders, trade_history, now, trade_time, orders, failed,
                   aggregation, analysis, files, config_file>>

\* lines 434-439 with get_recent_trades, lines 247-279
PollTrader ==
    /\ pc = "poll"
    /\ traders_to_check # <<>>
    /\ LET trader == Head(traders_to_check)
           last_check == IF trader \in DOMAIN last_check_time
                         THEN last_check_time[trader] ELSE InitialCheckTime
       IN \/ /\ recent_trades' = trades_as_maker(trader, last_check)
                                   \o trades_as_taker(trader, last_check)
             /\ last_check_time' = DictSet(last_check_time, trader, now)
          \/ /\ recent_trades' = <<>>
             /\ UNCHANGED last_check_time
    /\ traders_to_check' = Tail(traders_to_check)
    /\ pc' = NextPc(traders_to_check', recent_trades')
    /\ Forget
    /\ UNCHANGED <<config, watched_traders, trade_history, now, trade_time, orders, failed,
                   aggregation, analysis, files, config_file>>

\* get_recent_trades, lines 247-279, while the exchange matches trade id: the
\* exchange has answered the queries of lines 256-269 when the trade is made,
\* and line 272 reads the clock after that.
PollTraderRaced(id) ==
    /\ pc = "poll"
    /\ traders_to_check # <<>>
    /\ id \notin DOMAIN trade_time
    /\ LET trader == Head(traders_to_check)
           last_check == IF trader \in DOMAIN last_check_time
                         THEN last_check_time[trader] ELSE InitialCheckTime
       IN /\ recent_trades' = trades_as_maker(trader, last_check)
                                 \o trades_as_taker(trader, last_check)
          /\ trade_time' = DictSet(trade_time, id, now)
          /\ last_check_time' = DictSet(last_check_time, trader, now)
    /\ traders_to_check' = Tail(traders_to_check)
    /\ pc' = NextPc(traders_to_check', recent_trades')
    /\ Forget
    /\ UNCHANGED <<config, watched_traders, trade_history, now, orders, failed,
                   aggregation, analysis, files, config_file>>

\* lines 442-447 and 464-465.  An exception of analyze_trade is caught by the
\* handler of the cycle, lines 472-475: the rest of the cycle is not run.
AnalyzeTrade ==
    /\ pc = "process"
    /\ recent_trades # <<>>
    /\ IF raises(Head(recent_trades))
       THEN /\ pc' = "error"
            /\ recent_trades' = <<>>
            /\ traders_to_check' = <<>>
            /\ UNCHANGED analysis
       ELSE /\ analysis' = analyze_trade(Head(recent_trades), config)
            /\ recent_trades' = Tail(recent_trades)
            /\ pc' = IF analysis'.should_copy THEN "execute"
                     ELSE NextPc(traders_to_check, recent_trades')
            /\ UNCHANGED traders_to_check
    /\ Forget
    /\ UNCHANGED <<object, now, trade_time, orders, failed, aggregation, files, config_file>>

\* random.random() (line 453), in tenths: a number of [0, 1)
RandomTenths == {0, 9}

min_copy_delay(cfg) ==
    IF "min_copy_delay" \in DOMAIN cfg THEN cfg.min_copy_delay ELSE 30

max_copy_delay(cfg) ==
    IF "max_copy_delay" \in DOMAIN cfg THEN cfg.max_copy_delay ELSE 300

\* the delay as a share of max_copy_delay alone
copy_delay_of_max(cfg, r) == max_copy_delay(cfg) * r

\* lines 451-453, in tenths of a second
copy_delay(cfg, r) ==
    min_copy_delay(cfg) * 10 + (max_copy_delay(cfg) - min_copy_delay(cfg)) * r

\* line 352, for an order at the price of the analysis: the size of a BUY is
\* copy_amount without the division
order_size_amount(an) == an.copy_amount

\* line 352: size = copy_amount if side == SELL else copy_amount / price  (hundredths;
\* copy_amount is in hundredths and the price in tenths)
order_size(an) ==
    IF an.side = "BUY" THEN (an.copy_amount * 10) \div an.price ELSE an.copy_amount

\* execute_copy_trade goes on to the order for every configuration
is_trading_active_always(cfg) == TRUE

\* line 340: self.config.get("trading_active", False)
is_trading_active(cfg) == cfg.trading_active

\* lines 449-463 with execute_copy_trade, lines 329-370.  After it the result of
\* the analysis is not read again.  Line 352 divides by the price before the
\* order is made; execute_order either returns an id, which is recorded, or raises.
ExecuteCopyTrade ==
    /\ pc = "execute"
    /\ IF ~is_trading_active(config)
       THEN /\ order' = NoOrder
            /\ result' = None
            /\ UNCHANGED <<trade_history, orders, failed>>
       ELSE IF analysis.side = "BUY" /\ analysis.price = 0
       THEN /\ order' = NoOrder
            /\ result' = None
            /\ UNCHANGED <<trade_history, orders, failed>>
       ELSE /\ orders < MaxLedger
            /\ orders' = orders + 1
            /\ order' = [price |-> analysis.price, size |-> order_size(analysis),
                         side |-> analysis.side, token_id |-> analysis.asset_id]
            /\ \/ \E trade_id \in OrderIds :
                      /\ trade_history' = record_copy_trade(trade_history, analysis, trade_id)
                      /\ result' = trade_id
                      /\ UNCHANGED failed
               \/ /\ result' = None
                  /\ failed' = failed \cup {analysis.original_trade.id}
                  /\ UNCHANGED trade_history
    /\ \E r \in RandomTenths : delay' = copy_delay(config, r)
    /\ pc' = NextPc(traders_to_check, recent_trades)
    /\ analysis' = NoAnalysis
    /\ UNCHANGED <<config, watched_traders, last_check_time, now, trade_time,
                   traders_to_check, recent_trades, files, config_file, aggregation>>

\* the loop without the handler of lines 472-475: the sleep of line 470 only
Sleep_no_handler ==
    /\ pc = "sleep"
    /\ pc' = "loop"
    /\ Forget
    /\ UNCHANGED <<object, now, trade_time, orders, failed, aggregation, loopLocals, files,
                   config_file>>

\* lines 467-470 (time.sleep(polling_interval)) and 472-475 (time.sleep(30))
Sleep ==
    /\ pc \in {"sleep", "error"}
    /\ pc' = "loop"
    /\ Forget
    /\ UNCHANGED <<object, now, trade_time, orders, failed, aggregation, loopLocals, files,
                   config_file>>

\* Ctrl-C: KeyboardInterrupt is raised in the loop, at a statement other than
\* those of lines 355-363.  No handler of monitor_traders catches it (they
\* catch Exception); main catches it, line 544, and the process ends.
Interrupt ==
    /\ pc \notin {"init", "stopped"}
    /\ pc' = "stopped"
    /\ traders_to_check' = <<>>
    /\ recent_trades' = <<>>
    /\ analysis' = NoAnalysis
    /\ Forget
    /\ UNCHANGED <<object, now, trade_time, orders, failed, aggregation, files, config_file>>

\* Ctrl-C in execute_copy_trade after execute_order has returned the id of the
\* order (line 355-360) and before _record_copy_trade has appended the record
\* (line 363, with line 396): the handler of lines 368-370 does not catch
\* KeyboardInterrupt.  order and result are the order made and the id returned.
InterruptExecute ==
    /\ pc = "execute"
    /\ is_trading_active(config)
    /\ ~(analysis.side = "BUY" /\ analysis.price = 0)
    /\ orders < MaxLedger
    /\ orders' = orders + 1
    /\ order' = [price |-> analysis.price, size |-> order_size(analysis),
                 side |-> analysis.side, token_id |-> analysis.asset_id]
    /\ \E trade_id \in OrderIds : result' = trade_id
    /\ \E r \in RandomTenths : delay' = copy_delay(config, r)
    /\ pc' = "stopped"
    /\ traders_to_check' = <<>>
    /\ recent_trades' = <<>>
    /\ analysis' = NoAnalysis
    /\ UNCHANGED <<object, now, trade_time, failed, aggregation, files, config_file>>

(***************************************************************************)
(* The environment.                                                        *)
(***************************************************************************)
\* the wall clock advances
Tick ==
    /\ now < MaxTime
    /\ now' = now + 1
    /\ UNCHANGED <<object, trade_time, orders, order, result, delay, failed, aggregation, pc, loopLocals, files, config_file>>

\* the local wall clock is set back (the end of daylight saving time, a clock
\* correction): datetime.datetime.now() is the naive local time
ClockBack ==
    /\ now > 0
    /\ now' = now - 1
    /\ UNCHANGED <<object, trade_time, orders, order, result, delay, failed, aggregation, pc, loopLocals, files, config_file>>

\* an account makes a trade on the exchange
TradeOccurs(id) ==
    /\ id \notin DOMAIN trade_time
    /\ trade_time' = DictSet(trade_time, id, now)
    /\ UNCHANGED <<object, now, pc, loopLocals, files, config_file, orders, order, result, delay, failed, aggregation>>

\* the process ends and is started again: __init__, lines 27-62.  The watch list
\* is read from the config file (line 49); trade_history.json is as last saved
\* (every change of trade_history is saved when made).
Restart ==
    /\ pc # "init"
    /\ pc' = "init"
    /\ watched_traders' = config_file
    /\ last_check_time' = [a \in {config_file[i] : i \in 1..Len(config_file)}
                              |-> InitialCheckTime]
    /\ traders_to_check' = <<>>
    /\ recent_trades' = <<>>
    /\ analysis' = NoAnalysis
    /\ Forget
    /\ UNCHANGED <<config, trade_history, now, trade_time, orders, failed, aggregation, files,
                   config_file>>

(***************************************************************************)
(* Configurations (the config file), and the state after construction.     *)
(***************************************************************************)
AnalyticsConfig(enabled, auto) ==
    [enabled |-> enabled, min_win_rate |-> 70, min_pnl |-> 60000,
     auto_update_traders |-> auto, max_auto_traders |-> 1,
     update_interval_hours |-> 1]

LoopConfig(active, enabled, auto) ==
    [min_amount_to_copy |-> 5, max_amount_to_copy |-> 8, copy_percentage |-> 5,
     blacklisted_markets |-> {}, whitelist_only |-> FALSE, whitelisted_markets |-> {},
     copy_buys |-> TRUE, copy_sells |-> TRUE,
     max_positions_per_market |-> 1, max_daily_trades |-> 2, max_daily_amount |-> 10,
     auto_close_positions |-> FALSE, trading_active |-> active,
     analytics |-> AnalyticsConfig(enabled, auto)]

\* _load_config, lines 85-111: the configuration written and used when there is
\* no configuration file (copy_percentage 0.1, min_win_rate 0.7)
default_config ==
    [min_amount_to_copy |-> 50, max_amount_to_copy |-> 500, copy_percentage |-> 1,
     blacklisted_markets |-> {}, whitelist_only |-> FALSE, whitelisted_markets |-> {},
     copy_buys |-> TRUE, copy_sells |-> TRUE,
     max_positions_per_market |-> 3, max_daily_trades |-> 10, max_daily_amount |-> 1000,
     auto_close_positions |-> TRUE, trading_active |-> FALSE,
     analytics |-> [enabled |-> TRUE, min_win_rate |-> 70, min_pnl |-> 50000,
                    auto_update_traders |-> FALSE, max_auto_traders |-> 5,
                    update_interval_hours |-> 24]]

\* __init__ with no watched traders configured and no files under data/
Constructed ==
    /\ watched_traders = <<>>
    /\ last_check_time = <<>>
    /\ trade_history = <<>>
    /\ now = 0
    /\ trade_time = <<>>
    /\ pc = "init"
    /\ traders_to_check = <<>>
    /\ recent_trades = <<>>
    /\ analysis = NoAnalysis
    /\ cache = [src \in Sources |-> NoCache]
    /\ last_traders_update = NoUpdate
    /\ config_file = watched_traders
    /\ orders = 0
    /\ order = NoOrder
    /\ result = NoResult
    /\ delay = NoDelay
    /\ failed = {}
    /\ aggregation = NoAggregation

\* The trading loop, with the analytics auto-update off (the default).
Init ==
    /\ config \in {LoopConfig(active, TRUE, FALSE) : active \in BOOLEAN}
    /\ Constructed

Next ==
    \/ \E a \in Addresses : AddTrader(a)
    \/ \E a \in Addresses : RemoveTrader(a)
    \/ StartMonitor
    \/ BeginCycle
    \/ PollTrader
    \/ AnalyzeTrade
    \/ ExecuteCopyTrade
    \/ Sleep
    \/ Tick
    \/ ClockBack
    \/ \E id \in TradeIds : TradeOccurs(id)
    \/ Restart

Spec == Init /\ [][Next]_vars

\* The watch list and its updates from analytics; no watched account trades.
InitWatch ==
    /\ config \in {LoopConfig(FALSE, enabled, auto) : enabled \in BOOLEAN, auto \in BOOLEAN}
    /\ Constructed

NextWatch ==
    \/ \E a \in Addresses : AddTrader(a)
    \/ \E a \in Addresses : RemoveTrader(a)
    \/ FindTopTraders
    \/ StartMonitor
    \/ BeginCycle
    \/ PollTrader
    \/ Sleep
    \/ Tick
    \/ Restart

SpecWatch == InitWatch /\ [][NextWatch]_vars

\* The watch list under updates from analytics asked for by the user
\* (run-copy-trader --find-top-traders) and under adds and removes.
RefreshConfigs ==
    {[LoopConfig(FALSE, TRUE, FALSE) EXCEPT !.analytics.max_auto_traders = n] : n \in 0..2}

InitRefresh ==
    /\ config \in RefreshConfigs
    /\ Constructed

NextRefresh ==
    \/ \E a \in Addresses : AddTrader(a)
    \/ \E a \in Addresses : RemoveTrader(a)
    \/ FindTopTraders
    \/ Tick

SpecRefresh == InitRefresh /\ [][NextRefresh]_vars

\* The trading loop of a process constructed with accounts 1 and 2 on the watch
\* list of its configuration file (lines 49-55).
ConstructedWatching ==
    /\ watched_traders = <<1, 2>>
    /\ now = 0
    /\ last_check_time = [a \in {1, 2} |-> InitialCheckTime]
    /\ trade_history = <<>>
    /\ trade_time = <<>>
    /\ pc = "init"
    /\ traders_to_check = <<>>
    /\ recent_trades = <<>>
    /\ analysis = NoAnalysis
    /\ cache = [src \in Sources |-> NoCache]
    /\ last_traders_update = NoUpdate
    /\ config_file = watched_traders
    /\ orders = 0
    /\ order = NoOrder
    /\ result = NoResult
    /\ delay = NoDelay
    /\ failed = {}
    /\ aggregation = NoAggregation

InitPoll ==
    /\ config \in {LoopConfig(active, TRUE, FALSE) : active \in BOOLEAN}
    /\ ConstructedWatching

NextPoll ==
    \/ StartMonitor
    \/ BeginCycle
    \/ PollTrader
    \/ AnalyzeTrade
    \/ ExecuteCopyTrade
    \/ Sleep
    \/ Tick
    \/ ClockBack
    \/ \E id \in TradeIds : TradeOccurs(id)
    \/ Restart

SpecPoll == InitPoll /\ [][NextPoll]_vars

\* The trading loop left running: the process is not ended, every statement of
\* monitor_traders that is reached is executed in the end (the interpreter runs
\* the one thread of the loop, and every sleep ends), and the exchange also
\* reports a trade that analyze_trade cannot read.
LiveTradeIds == {"t1", "t3", "t4", "t5"}

\* configurations with and without the delays of lines 90-91, in seconds
WithDelays(cfg, min_delay, max_delay) ==
    [min_copy_delay |-> min_delay, max_copy_delay |-> max_delay] @@ cfg

LiveConfigs ==
    {LoopConfig(active, TRUE, FALSE) : active \in BOOLEAN}
        \cup {WithDelays(LoopConfig(TRUE, TRUE, FALSE), d[1], d[2]) :
                  d \in {<<1, 3>>, <<2, 2>>, <<5, 2>>}}

InitLive ==
    /\ config \in LiveConfigs
    /\ ConstructedWatching

NextLive ==
    \/ StartMonitor
    \/ BeginCycle
    \/ PollTrader
    \/ AnalyzeTrade
    \/ ExecuteCopyTrade
    \/ Sleep
    \/ Tick
    \/ \E id \in LiveTradeIds : TradeOccurs(id)

SpecLive ==
    /\ InitLive
    /\ [][NextLive]_vars
    /\ WF_vars(StartMonitor)
    /\ WF_vars(BeginCycle)
    /\ WF_vars(PollTrader)
    /\ WF_vars(AnalyzeTrade)
    /\ WF_vars(ExecuteCopyTrade)
    /\ WF_vars(Sleep)

\* The trading loop stopped from the keyboard (main, lines 541-545).
NextStop ==
    \/ StartMonitor
    \/ BeginCycle
    \/ PollTrader
    \/ AnalyzeTrade
    \/ ExecuteCopyTrade
    \/ Sleep
    \/ Tick
    \/ \E id \in TradeIds : TradeOccurs(id)
    \/ Interrupt
    \/ InterruptExecute

SpecStop == InitPoll /\ [][NextStop]_vars

\* The trading loop with trades made on the exchange at any time, also while
\* get_recent_trades is waiting for or has got the answers to its queries.
NextRace ==
    \/ StartMonitor
    \/ BeginCycle
    \/ PollTrader
    \/ \E id \in TradeIds : PollTraderRaced(id)
    \/ AnalyzeTrade
    \/ ExecuteCopyTrade
    \/ Sleep
    \/ Tick
    \/ \E id \in TradeIds : TradeOccurs(id)

SpecRace == InitPoll /\ [][NextRace]_vars

(***************************************************************************)
(* analyze_trade and execute_copy_trade as functions of the trade and the   *)
(* configuration: every initial state holds the trades of one poll of      *)
(* account 1, after one trade was made, and one configuration (the default *)
(* one among them), and the loop analyzes the trades and executes the      *)
(* copies.                                                                 *)
(***************************************************************************)
\* The watched account 1 is the maker of the trade.  Some trades have it as the
\* taker as well, and one trade has a size that is no number.
PolicyTrades ==
    {t \in [id : {"t0"}, market : Markets, asset_id : {"y1"}, side : {"BUY", "SELL", ""},
            size : {0, 1, 20, 2000, NotANumber}, price : {0, 5, 10},
            maker_address : {1}, taker : {1, 2}] :
        /\ t.taker = 1 => (t.market = "m1" /\ t.price = 5)
        /\ t.size = NotANumber => (t.market = "m1" /\ t.price = 5 /\ t.side = "BUY")}

PolicyConfigs ==
    [min_amount_to_copy : {0, 5, 50}, max_amount_to_copy : {0, 8, 500},
     copy_percentage : {0, 1, 5, 10},
     blacklisted_markets : {{}, {"m1"}}, whitelist_only : BOOLEAN,
     whitelisted_markets : {{}, {"m1"}},
     copy_buys : BOOLEAN, copy_sells : BOOLEAN,
     max_positions_per_market : {1}, max_daily_trades : {2}, max_daily_amount : {10},
     auto_close_positions : {FALSE}, trading_active : BOOLEAN,
     analytics : {AnalyticsConfig(TRUE, FALSE)}]

InitPolicy ==
    /\ config \in PolicyConfigs \cup {default_config}
    /\ watched_traders = <<1>>
    /\ last_check_time = [a \in {1} |-> 0]
    /\ trade_history = <<>>
    /\ now = 0
    /\ trade_time = <<>>
    /\ pc = "process"
    /\ traders_to_check = <<>>
    /\ recent_trades \in {SelectSeq(<<t>>, LAMBDA x : x.maker_address = 1)
                              \o SelectSeq(<<t>>, LAMBDA x : x.taker = 1) : t \in PolicyTrades}
    /\ analysis = NoAnalysis
    /\ cache = [src \in Sources |-> NoCache]
    /\ last_traders_update = NoUpdate
    /\ config_file = watched_traders
    /\ orders = 0
    /\ order = NoOrder
    /\ result = NoResult
    /\ delay = NoDelay
    /\ failed = {}
    /\ aggregation = NoAggregation

NextPolicy ==
    \/ AnalyzeTrade
    \/ ExecuteCopyTrade

SpecPolicy == InitPolicy /\ [][NextPolicy]_vars

(***************************************************************************)
(* get_recommended_traders (with get_top_traders) as a function of what    *)
(* the three sources answer, of the cache files and of its two arguments:  *)
(* a client of PolymarketAnalytics calls it, any number of times.          *)
(***************************************************************************)
\* What the sources may answer (<<>>: the request fails or finds no trader).
\* B1 has the address of A1; B2 has the pnl of A3 and a lower address; S4 has a
\* pnl of 0 and S5 a win rate of 0 (no position of the account is resolved).
A1 == [address |-> 1, pnl |-> 9000000, win_rate |-> 80]
A3 == [address |-> 3, pnl |-> 7000000, win_rate |-> 75]
B1 == [address |-> 1, pnl |-> 6500000, win_rate |-> 90]
B2 == [address |-> 2, pnl |-> 7000000, win_rate |-> 85]
S4 == [address |-> 4, pnl |-> 0, win_rate |-> 80]
S5 == [address |-> 5, pnl |-> 8000000, win_rate |-> 0]
AggReplies(src) ==
    IF src = "polymarketanalytics" THEN {<<>>, <<A1, A3>>}
    ELSE IF src = "polymarketwhales" THEN {<<>>, <<B1, B2>>}
    ELSE {<<>>, <<S4, S5>>}

AggAnswers == [fresh : [Sources -> BOOLEAN],
               reply : {f \in [Sources -> UNION {AggReplies(src) : src \in Sources}] :
                           \A src \in Sources : f[src] \in AggReplies(src)}]

\* the arguments min_win_rate (in hundredths) and min_pnl (in USD)
AggMinWinRates == {0, 70}
AggMinPnls == {0, 60000}

\* analytics.get_recommended_traders(min_win_rate, min_pnl), lines 468-503, under
\* the answers ans.  failed: the sources whose fetch ran and returned [].
GetRecommendedTraders(min_win_rate, min_pnl, ans) ==
    LET top(src) == get_top_traders(src, TopCount, cache[src], ans.fresh[src],
                                    ans.reply[src])
        pma_traders == top("polymarketanalytics").traders
        pmw_traders == top("polymarketwhales").traders
        subgraph_traders == top("subgraph").traders
    IN /\ aggregation' =
              [min_win_rate     |-> min_win_rate,
               min_pnl          |-> min_pnl,
               failed           |-> {src \in Sources :
                                        /\ ~(cache[src].exists /\ ans.fresh[src])
                                        /\ ans.reply[src] = <<>>},
               pma_traders      |-> pma_traders,
               pmw_traders      |-> pmw_traders,
               subgraph_traders |-> subgraph_traders,
               recommended      |-> get_recommended_traders(pma_traders, pmw_traders,
                                        subgraph_traders, min_win_rate, min_pnl)]
       /\ cache' = [src \in Sources |-> top(src).cache]
       /\ UNCHANGED <<object, now, trade_time, pc, loopLocals, last_traders_update,
                      config_file, orders, order, result, delay, failed>>

InitAgg ==
    /\ config = LoopConfig(FALSE, TRUE, FALSE)
    /\ Constructed

NextAgg ==
    \E min_win_rate \in AggMinWinRates, min_pnl \in AggMinPnls, ans \in AggAnswers :
        GetRecommendedTraders(min_win_rate, min_pnl, ans)

SpecAgg == InitAgg /\ [][NextAgg]_vars

(***************************************************************************)
(* Properties.                                                             *)
(***************************************************************************)
Analyzed == analysis # NoAnalysis

Ledger == AllRecords(trade_history)

Aggregated == aggregation # NoAggregation

\* the list get_top_traders gave the last aggregation for source src
TradersOf(src) ==
    IF src = "polymarketanalytics" THEN aggregation.pma_traders
    ELSE IF src = "polymarketwhales" THEN aggregation.pmw_traders
    ELSE aggregation.subgraph_traders

\* the three lists of the last aggregation in query order, as one list
AllTraders ==
    aggregation.pma_traders \o aggregation.pmw_traders \o aggregation.subgraph_traders

C2_CopyAmountBounded ==
    (Analyzed /\ analysis.should_copy)
        => (0 <= analysis.copy_amount
            /\ analysis.copy_amount <= config.max_amount_to_copy * 100)

\* C2 witness: a trade to be copied whose percentage share exceeds the maximum.
C2_Witness ==
    /\ Analyzed
    /\ analysis.should_copy
    /\ copy_amount_uncapped(analysis.original_trade, config)
           > config.max_amount_to_copy * 100
    /\ analysis.copy_amount = config.max_amount_to_copy * 100
    /\ config.max_amount_to_copy > 0

\* C3: the number of ledger records of one calendar day never exceeds max_daily_trades.
C3_DailyTradeCap ==
    \A d \in {Ledger[i].timestamp : i \in 1..Len(Ledger)} :
        Cardinality({i \in 1..Len(Ledger) : Ledger[i].timestamp = d})
            <= config.max_daily_trades

\* C4: the sum of copy_amount over the ledger records of one calendar day never
\* exceeds max_daily_amount.
C4_DailyAmountCap ==
    \A d \in {Ledger[i].timestamp : i \in 1..Len(Ledger)} :
        SeqSum([i \in 1..Len(Ledger) |->
                   IF Ledger[i].timestamp = d THEN Ledger[i].copy_amount ELSE 0])
            <= config.max_daily_amount * 100

\* C5: with auto_close_positions off, the number of ledger records of any one
\* market never exceeds max_positions_per_market.
C5_MarketPositionCap ==
    ~config.auto_close_positions =>
        \A m \in DOMAIN trade_history :
            Len(trade_history[m]) <= config.max_positions_per_market

\* C6: every analysis that rejects a trade carries a rejection reason.
C6_RejectionHasReason ==
    (Analyzed /\ ~analysis.should_copy) => "reason" \in DOMAIN analysis

\* C7: each source trade id appears in at most one ledger record.
C7_SourceTradeOnce ==
    \A i, j \in 1..Len(Ledger) :
        Ledger[i].original_trade.id = Ledger[j].original_trade.id => i = j

\* a step of the loop that polls one trader (get_recent_trades returns)
PollStep == pc = "poll" /\ pc' \in {"poll", "process", "sleep"}

\* C8: no poll moves the cursor (last_check_time) of a watched address backward.
C8_CursorMonotonic ==
    [][PollStep =>
        \A a \in DOMAIN last_check_time \cap DOMAIN last_check_time' :
            last_check_time'[a] >= last_check_time[a]]_vars

\* C9: a poll that would set the cursor of its address to a time older than the
\* cursor leaves last_check_time and the watch list as they are, and the loop goes on.
C9_OlderCursorRefused ==
    [][(/\ PollStep
        /\ Head(traders_to_check) \in DOMAIN last_check_time
        /\ now < last_check_time[Head(traders_to_check)])
        => (last_check_time' = last_check_time /\ watched_traders' = watched_traders)]_vars

\* C10: no address is on the watch list twice.
C10_WatchedOnce ==
    \A i, j \in 1..Len(watched_traders) :
        watched_traders[i] = watched_traders[j] => i = j

\* C10 witness: an analytics update that recommended the watched address 1 has run
\* (its result is in the cache file) and two addresses are watched.
C10_Witness ==
    /\ InList(1, watched_traders)
    /\ Len(watched_traders) = 2
    /\ cache["polymarketanalytics"] = [exists |-> TRUE, data |-> <<P1, P2>>]
    /\ last_traders_update # NoUpdate

\* C11: a call of add_watched_trader for an address that is already watched leaves
\* the watch list, the check times (that address's among them), the configuration
\* and the watch list saved in the configuration file as they were.
C11_AddIdempotent ==
    [][\A a \in Addresses :
          (InList(a, watched_traders) /\ AddTrader(a))
              => /\ watched_traders' = watched_traders
                 /\ last_check_time' = last_check_time
                 /\ config' = config
                 /\ config_file' = config_file]_vars

\* C11 witness: address 1 is watched and saved, add_watched_trader can be called,
\* and the check time of address 1 is not the one a new add would give it.
C11_Witness ==
    /\ pc = "init"
    /\ InList(1, watched_traders)
    /\ InList(1, config_file)
    /\ last_check_time[1] # InitialCheckTime
    /\ ENABLED AddTrader(1)

\* C12: the configuration used when there is no configuration file has trading
\* inactive, and in a state where trading is inactive (that configuration's
\* states among them) no step makes an order at the gateway or adds a record to
\* trade_history, whatever analysis is executed.
C12_KillSwitch ==
    [][/\ ~config.trading_active => (orders' = orders /\ trade_history' = trade_history)
       /\ config = default_config => (orders' = orders /\ trade_history' = trade_history)]_vars

\* C12 witness: under the default configuration a trade was analyzed as to be
\* copied and execute_copy_trade has returned; no order, no record.
C12_Witness ==
    /\ config = default_config
    /\ pc = "sleep"
    /\ analysis = NoAnalysis
    /\ recent_trades = <<>>
    /\ orders = 0
    /\ Ledger = <<>>

\* C13: the list get_recommended_traders returns holds no address twice, and
\* each of its records is the first record of its address in the lists of
\* polymarketanalytics, polymarketwhales and the subgraph, taken in that order.
C13_FirstSeenWins ==
    Aggregated =>
        LET r == aggregation.recommended
        IN /\ \A i, j \in 1..Len(r) : r[i].address = r[j].address => i = j
           /\ \A i \in 1..Len(r) :
                 \E k \in 1..Len(AllTraders) :
                     /\ AllTraders[k] = r[i]
                     /\ \A l \in 1..(k - 1) : AllTraders[l].address # r[i].address

\* C13 witness: polymarketanalytics and polymarketwhales both returned address 1,
\* with different records, and the aggregation returned the record of the first.
C13_Witness ==
    /\ Aggregated
    /\ aggregation.pma_traders = <<A1, A3>>
    /\ aggregation.pmw_traders = <<B1, B2>>
    /\ \E i \in 1..Len(aggregation.recommended) : aggregation.recommended[i] = A1
    /\ B1.win_rate >= aggregation.min_win_rate
    /\ B1.pnl >= aggregation.min_pnl * 100

\* C14: the records get_recommended_traders returns are exactly the deduplicated
\* records whose win_rate is at least min_win_rate and whose pnl is at least
\* min_pnl; a win_rate or a pnl of 0 counts as the value 0.
C14_FilterExact ==
    Aggregated =>
        LET r == aggregation.recommended
            u == Unique(AllTraders, {})
        IN {r[i] : i \in 1..Len(r)} =
               {t \in {u[i] : i \in 1..Len(u)} :
                   /\ t.win_rate >= aggregation.min_win_rate
                   /\ t.pnl >= aggregation.min_pnl * 100}

\* C15: the list get_recommended_traders returns is in descending order of pnl,
\* and records of equal pnl are in ascending order of address.
C15_SortedTiesByAddress ==
    Aggregated =>
        LET r == aggregation.recommended
        IN \A i, j \in 1..Len(r) :
               i < j => \/ r[i].pnl > r[j].pnl
                        \/ r[i].pnl = r[j].pnl /\ r[i].address < r[j].address

\* C16: a source whose fetch failed gives the aggregation the empty list, and
\* what is returned is what the lists of the other sources give.
C16_FailedSourceEmpty ==
    Aggregated =>
        LET given(src) == IF src \in aggregation.failed THEN <<>> ELSE TradersOf(src)
        IN /\ \A src \in aggregation.failed : TradersOf(src) = <<>>
           /\ aggregation.recommended =
                  get_recommended_traders(given("polymarketanalytics"),
                                          given("polymarketwhales"),
                                          given("subgraph"),
                                          aggregation.min_win_rate,
                                          aggregation.min_pnl)

\* every source is asked by the update under answers ans, and every fetch fails
AllFail(ans) ==
    \A src \in Sources : ~(cache[src].exists /\ ans.fresh[src]) /\ ans.reply[src] = <<>>

\* C17: an update of the watch list from analytics gets the empty list when the
\* fetch of every source fails and when no deduplicated record passes the
\* filter, and an update that gets the empty list leaves the watch list as it is.
C17_EmptyMeansNoChange ==
    [][\A ans \in Answers :
          (config.analytics.enabled /\ UpdateTraders(ans)) =>
              LET top(src) == get_top_traders(src, TopCount, cache[src], ans.fresh[src],
                                              ans.reply[src]).traders
                  u == Unique(top("polymarketanalytics") \o top("polymarketwhales")
                                  \o top("subgraph"), {})
                  recommended == recommended_traders(cache, ans.fresh, ans.reply,
                                                     config.analytics.min_win_rate,
                                                     config.analytics.min_pnl)
              IN /\ AllFail(ans) => recommended = <<>>
                 /\ (\A i \in 1..Len(u) :
                        ~(/\ u[i].win_rate >= config.analytics.min_win_rate
                          /\ u[i].pnl >= config.analytics.min_pnl * 100))
                        => recommended = <<>>
                 /\ recommended = <<>> => watched_traders' = watched_traders]_vars

\* C18: a trade whose market is in blacklisted_markets is analyzed as not to be
\* copied and is not passed on to execution, whatever its size, its side, the
\* white list and the other settings.
C18_BlacklistedNotCopied ==
    (Analyzed /\ analysis.original_trade.market \in config.blacklisted_markets)
        => (~analysis.should_copy /\ pc # "execute")

\* C18 witness: a trade on a market that is both blacklisted and whitelisted, which
\* passes every other gate, has been analyzed.
C18_Witness ==
    /\ Analyzed
    /\ analysis.original_trade.market \in config.blacklisted_markets
    /\ analysis.original_trade.market \in config.whitelisted_markets
    /\ config.whitelist_only
    /\ should_copy_no_blacklist(analysis.original_trade, config)
    /\ ~analysis.should_copy

\* C19: with whitelist_only set, a trade whose market is not in whitelisted_markets
\* is analyzed as not to be copied; with whitelist_only not set, the decision is
\* the one analyze_trade takes under any other white list.
C19_WhitelistOnly ==
    Analyzed =>
        /\ (config.whitelist_only
              /\ analysis.original_trade.market \notin config.whitelisted_markets)
               => (~analysis.should_copy /\ pc # "execute")
        /\ ~config.whitelist_only =>
               \A w \in SUBSET Markets :
                   analyze_trade(analysis.original_trade,
                                 [config EXCEPT !.whitelisted_markets = w]).should_copy
                       = analysis.should_copy

\* C19 witness: with whitelist_only set, a trade on a market outside the white
\* list, which passes every other gate, has been analyzed.
C19_Witness ==
    /\ Analyzed
    /\ config.whitelist_only
    /\ analysis.original_trade.market \notin config.whitelisted_markets
    /\ should_copy_no_whitelist(analysis.original_trade, config)
    /\ ~analysis.should_copy

\* C20: a BUY is analyzed as not to be copied when copy_buys is false and a SELL
\* when copy_sells is false; the decision for a BUY is the same under either
\* value of copy_sells, and the decision for a SELL under either value of copy_buys.
C20_SideSwitches ==
    Analyzed =>
        LET trade == analysis.original_trade
        IN /\ (trade.side = "BUY" /\ ~config.copy_buys)
                  => (~analysis.should_copy /\ pc # "execute")
           /\ (trade.side = "SELL" /\ ~config.copy_sells)
                  => (~analysis.should_copy /\ pc # "execute")
           /\ trade.side = "BUY" =>
                  \A b \in BOOLEAN :
                      analyze_trade(trade, [config EXCEPT !.copy_sells = b]).should_copy
                          = analysis.should_copy
           /\ trade.side = "SELL" =>
                  \A b \in BOOLEAN :
                      analyze_trade(trade, [config EXCEPT !.copy_buys = b]).should_copy
                          = analysis.should_copy

\* C20 witness: a BUY that passes every other gate has been analyzed with copy_buys
\* false and copy_sells true.
C20_Witness ==
    /\ Analyzed
    /\ analysis.original_trade.side = "BUY"
    /\ ~config.copy_buys
    /\ config.copy_sells
    /\ should_copy_either_side(analysis.original_trade, config)
    /\ ~analysis.should_copy

\* a step of AnalyzeTrade that returns from analyze_trade
AnalyzeStep ==
    /\ pc = "process"
    /\ recent_trades' = Tail(recent_trades)
    /\ pc' \notin {"init", "error"}

\* C21: the value of an analyzed trade is size * price when its side is SELL and
\* its size alone when its side is BUY; the minimum-amount gate and the copy
\* amount are both computed from that one value.
C21_TradeValueBySide ==
    (Analyzed /\ analysis.side \in {"BUY", "SELL"}) =>
        LET t == analysis.original_trade
            value == IF t.side = "SELL" THEN t.size * t.price ELSE t.size * 10
        IN /\ analysis.should_copy <=>
                  (/\ value >= config.min_amount_to_copy * 10
                   /\ should_copy_no_minimum(t, config))
           /\ analysis.copy_amount =
                  Min(value * config.copy_percentage, config.max_amount_to_copy * 100)

\* C21 witness: a BUY at half a USD is approved; its copy amount, under the cap,
\* is the percentage of its size and not of size * price.
C21_Witness ==
    /\ Analyzed
    /\ analysis.should_copy
    /\ analysis.side = "BUY"
    /\ analysis.price = 5
    /\ analysis.original_trade.size = 20
    /\ config.min_amount_to_copy = 5
    /\ analysis.copy_amount = 200 * config.copy_percentage
    /\ analysis.copy_amount > 0
    /\ analysis.copy_amount < config.max_amount_to_copy * 100

\* C22: the copy amount of every approved decision is the smaller of
\* trade_value * copy_percentage and max_amount_to_copy; with a minimum of 50, a
\* percentage of 0.1 and a maximum of 500, a BUY of size 2000 at price 1 is
\* approved with a copy amount of 200.
C22_CopyAmountFormula ==
    Analyzed =>
        LET t == analysis.original_trade
        IN /\ analysis.should_copy =>
                  analysis.copy_amount =
                      Min(trade_value(t) * config.copy_percentage,
                          config.max_amount_to_copy * 100)
           /\ (/\ config.min_amount_to_copy = 50
               /\ config.copy_percentage = 1
               /\ config.max_amount_to_copy = 500
               /\ should_copy_no_minimum(t, config)
               /\ t.side = "BUY" /\ t.size = 2000 /\ t.price = 10)
                  => (/\ analysis.should_copy
                      /\ trade_value(t) = 2000 * 10
                      /\ analysis.copy_amount = 200 * 100)

\* C22 witness: the BUY of size 2000 at price 1 has been analyzed under the default
\* configuration (50, 0.1, 500) and is to be executed with a copy amount of 200.
C22_Witness ==
    /\ pc = "execute"
    /\ config = default_config
    /\ analysis.side = "BUY"
    /\ analysis.original_trade.size = 2000
    /\ analysis.price = 10
    /\ analysis.copy_amount = 20000

RestartStep == pc # "init" /\ pc' = "init"

\* a step from the poll of one trader, whatever get_recent_trades does
FromPoll == pc = "poll" /\ pc' # "init" /\ traders_to_check' # traders_to_check

\* a step of the loop through execute_copy_trade
ExecuteStep == pc = "execute" /\ pc' # "init"

\* C24: the cursor of every watched address is saved with the address, so that a
\* restart leaves it as it was (and no trade at or before it is fetched again).
C24_CursorSurvivesRestart ==
    [][RestartStep =>
          \A a \in DOMAIN last_check_time \cap DOMAIN last_check_time' :
              last_check_time'[a] = last_check_time[a]]_vars

\* C25: the size of the order is copy_amount for a SELL and copy_amount / price
\* for a BUY; for a BUY at price 0 no order is made and no record is written.
C25_OrderSize ==
    [][ExecuteStep =>
          /\ (order' # NoOrder /\ analysis.side = "SELL")
                 => order'.size = analysis.copy_amount
          /\ (order' # NoOrder /\ analysis.side = "BUY")
                 => order'.size * analysis.price = analysis.copy_amount * 10
          /\ (analysis.side = "BUY" /\ analysis.price = 0)
                 => /\ order' = NoOrder
                    /\ orders' = orders
                    /\ trade_history' = trade_history]_vars

\* C25 witness: a BUY order at half a USD has been made for twice the copy amount
\* of 200 USD (the BUY of size 2000 under the default amounts).
C25_Witness ==
    /\ order # NoOrder
    /\ order.side = "BUY"
    /\ order.price = 5
    /\ order.size = 40000
    /\ orders = 1

\* C26: a poll whose fetch succeeds sets the cursor of its address, and of no
\* other, to the time of the fetch, in the step that hands over the fetched
\* trades and so before any of them is analyzed; a poll whose fetch fails hands
\* over no trade and leaves every cursor as it was; analyzing and executing, with
\* whatever outcome, change no cursor.
C26_CursorOncePerFetch ==
    [][/\ FromPoll =>
             LET trader == Head(traders_to_check)
                 last_check == last_check_time[trader]
             IN \/ /\ recent_trades' = trades_as_maker(trader, last_check)
                                         \o trades_as_taker(trader, last_check)
                   /\ last_check_time' = [last_check_time EXCEPT ![trader] = now]
                \/ /\ recent_trades' = <<>>
                   /\ last_check_time' = last_check_time
       /\ (pc \in {"process", "execute"} /\ pc' # "init")
             => last_check_time' = last_check_time]_vars

\* C26 witness: a fetch has handed over a trade that is not yet analyzed, the
\* cursor of its address is the time of the fetch, later than it was at
\* construction, and the cursor of the other address is not.
C26_Witness ==
    /\ pc = "process"
    /\ Len(recent_trades) = 1
    /\ analysis = NoAnalysis
    /\ now = 1
    /\ traders_to_check = <<2>>
    /\ last_check_time[1] = 1
    /\ last_check_time[2] = -1

\* C27: a fetch that fails does not end the cycle: it hands over no trade, and
\* the loop goes on to the next address of the shuffled list, or to the sleep
\* after the last one; the addresses still to be polled are dropped one by one,
\* by their polls only, and the cycle ends when none and no trade is left.
C27_FailedFetchGoesOn ==
    [][/\ (FromPoll /\ recent_trades' = <<>>)
             => /\ traders_to_check' = Tail(traders_to_check)
                /\ pc' = IF traders_to_check' # <<>> THEN "poll" ELSE "sleep"
       /\ (pc \in {"process", "execute"} /\ pc' \notin {"init", "error"})
             => traders_to_check' = traders_to_check
       /\ pc' = "sleep" => (traders_to_check' = <<>> /\ recent_trades' = <<>>)]_vars

\* C27 witness: of the two addresses polled in this cycle the fetch of the first
\* has failed (its cursor is still the one of construction) and a trade fetched
\* for the second is to be analyzed.
C27_Witness ==
    /\ pc = "process"
    /\ recent_trades # <<>>
    /\ traders_to_check = <<>>
    /\ watched_traders = <<1, 2>>
    /\ now = 0
    /\ \E a \in {1, 2} : last_check_time[a] = -1
    /\ \E a \in {1, 2} : last_check_time[a] = 0

\* C28: when analyze_trade fails on a trade, only that trade is skipped: the
\* trades fetched after it are still to be analyzed and the addresses after its
\* address still to be polled.
C28_FailureSkipsOneTrade ==
    [][(pc = "process" /\ raises(Head(recent_trades)) /\ pc' # "init")
          => /\ recent_trades' = Tail(recent_trades)
             /\ traders_to_check' = traders_to_check]_vars

\* C29: no order is made for a source trade whose order the gateway has refused
\* before.
C29_FailedNotSubmittedAgain ==
    [][(ExecuteStep /\ orders' = orders + 1)
          => analysis.original_trade.id \notin failed]_vars

\* C30: execute_copy_trade writes a record exactly when the gateway has taken the
\* order: then it returns the id of the order and appends, to the list of the
\* market, one record with the market, asset, side, price and copy amount of the
\* analysis and that id; otherwise it returns None and leaves the ledger as it
\* was.
C30_RecordIffSubmitted ==
    [][ExecuteStep =>
          IF result' \in OrderIds
          THEN /\ order' # NoOrder
               /\ Len(AllRecords(trade_history')) = Len(Ledger) + 1
               /\ \A m \in DOMAIN trade_history \ {analysis.market_id} :
                      trade_history'[m] = trade_history[m]
               /\ LET list == trade_history'[analysis.market_id]
                      record == list[Len(list)]
                  IN /\ record.market_id = analysis.market_id
                     /\ record.asset_id = analysis.asset_id
                     /\ record.side = analysis.side
                     /\ record.price = analysis.price
                     /\ record.copy_amount = analysis.copy_amount
                     /\ record.copied_trade_id = result'
                     /\ record.original_trade = analysis.original_trade
          ELSE /\ result' = None
               /\ trade_history' = trade_history]_vars

\* C30 witness: the gateway has taken an order, its id has been returned and the
\* one record of the ledger carries it.
C30_Witness ==
    /\ result \in OrderIds
    /\ order # NoOrder
    /\ Len(Ledger) = 1
    /\ Ledger[1].copied_trade_id = result
    /\ Ledger[1].side = order.side
    /\ Ledger[1].price = order.price
    /\ Ledger[1].asset_id = order.token_id

\* C31: an update of the watch list from analytics appends, to the watch list as
\* it was, the first max_auto_traders addresses of the recommended list that
\* were not watched, in the order of that list: it adds no more, adds no
\* address twice, and removes or moves none.
C31_RefreshAddsNewInOrder ==
    [][\A ans \in Answers :
          (config.analytics.enabled /\ UpdateTraders(ans)) =>
              LET recommended == recommended_traders(cache, ans.fresh, ans.reply,
                                                     config.analytics.min_win_rate,
                                                     config.analytics.min_pnl)
                  new == SelectSeq(recommended,
                                   LAMBDA t : ~InList(t.address, watched_traders))
                  added == SubSeq(watched_traders', Len(watched_traders) + 1,
                                  Len(watched_traders'))
              IN /\ SubSeq(watched_traders', 1, Len(watched_traders)) = watched_traders
                 /\ Len(added) <= config.analytics.max_auto_traders
                 /\ Len(added) = Min(Len(new), config.analytics.max_auto_traders)
                 /\ \A i \in 1..Len(added) : added[i] = new[i].address
                 /\ \A i, j \in 1..Len(watched_traders') :
                        watched_traders'[i] = watched_traders'[j] => i = j]_vars

\* C31 witness: updates have added address 1 and later address 2, recommended
\* together by one source, one at a time after the watched address 301.
C31_Witness ==
    /\ config.analytics.max_auto_traders = 1
    /\ cache["polymarketanalytics"] = [exists |-> TRUE, data |-> <<P1, P2>>]
    /\ watched_traders = <<301, 1>>
    /\ config_file = <<301, 1>>

\* C32: an exception raised in a cycle is caught by the loop: from the handler
\* the loop goes nowhere but to the top of the next cycle, and a loop in the
\* handler does reach the top of the next cycle.
C32_ErrorResumes ==
    /\ [][pc = "error" => pc' \in {"error", "loop"}]_vars
    /\ (pc = "error") ~> (pc = "loop")

\* C32 witness: the trade polled could not be analyzed and the loop is in its
\* handler, the other address not polled in this cycle
C32_Witness ==
    /\ pc = "error"
    /\ "t4" \in DOMAIN trade_time
    /\ last_check_time[2] = InitialCheckTime

\* the phases of a cycle in the order of the scheduler's state machine
PhaseRank(p) ==
    CASE p \in {"init", "loop"} -> 0
      [] p = "poll" -> 1
      [] p = "process" -> 2
      [] p = "execute" -> 3
      [] p \in {"sleep", "error"} -> 4

\* C33 as stated: within a cycle the loop never goes back to an earlier phase;
\* only the step to the top of the next cycle goes back.
C33_LinearPhases ==
    [][pc' # "loop" => PhaseRank(pc') >= PhaseRank(pc)]_vars

\* C33, amended: a cycle starts at the top of the loop and polls the addresses
\* one after the other; the trades of one poll are evaluated one after the
\* other, each approved trade executed before the next is evaluated, and the
\* next address is polled only when no trade of the last poll is left; the
\* sleep is entered only when no address and no trade is left, and the sleep and
\* the handler of an error lead to the top of the next cycle, which the loop
\* reaches again and again.
C33_PhaseOrder ==
    /\ [][/\ pc = "init" => pc' \in {"init", "loop"}
          /\ pc = "loop" => pc' \in {"loop", "poll"}
          /\ pc = "poll" => pc' \in {"poll", "process", "sleep"}
          /\ pc = "process" => pc' \in {"process", "execute", "poll", "sleep", "error"}
          /\ pc = "execute" => pc' \in {"execute", "process", "poll", "sleep"}
          /\ pc \in {"sleep", "error"} => pc' \in {pc, "loop"}
          /\ pc' = "poll" => (recent_trades' = <<>> /\ traders_to_check' # <<>>)
          /\ pc' = "process" => recent_trades' # <<>>
          /\ pc' = "sleep" => (recent_trades' = <<>> /\ traders_to_check' = <<>>)]_vars
    /\ []<>(pc = "loop")

\* C33 witness: an order was accepted for a trade of the first address polled,
\* and the loop is back at polling, for the second address
C33_Witness ==
    /\ pc = "poll"
    /\ result \in OrderIds
    /\ Len(traders_to_check) = 1

\* C34: when the loop has been stopped from outside, the order that the
\* gateway accepted last has its record in the ledger.
C34_StoppedWithRecord ==
    (pc = "stopped" /\ order # NoOrder /\ result \in OrderIds) =>
        \E i \in 1..Len(Ledger) :
            /\ Ledger[i].copied_trade_id = result
            /\ Ledger[i].asset_id = order.token_id
            /\ Ledger[i].side = order.side
            /\ Ledger[i].price = order.price

\* C35: an order is made only after a delay that is not shorter than
\* min_copy_delay and not longer than max_copy_delay, when min_copy_delay is
\* not above max_copy_delay.
C35_DelayBounded ==
    (order # NoOrder /\ min_copy_delay(config) <= max_copy_delay(config)) =>
        /\ delay # NoDelay
        /\ min_copy_delay(config) * 10 <= delay
        /\ delay <= max_copy_delay(config) * 10

\* C35 witness: with delays of 1 to 3 seconds configured, an order was made
\* after 2.8 seconds
C35_Witness ==
    /\ order # NoOrder
    /\ min_copy_delay(config) = 1
    /\ max_copy_delay(config) = 3
    /\ delay = 28

\* C36: the addresses a cycle is going to poll are the watch list in some
\* order, each address once, and taking that order leaves the watch list and
\* its copy in the configuration file as they were; every poll is for the first
\* address not yet polled and takes it off, nothing else of the cycle changes
\* the addresses left, and the cycle goes to its sleep only with none left.
C36_EachPolledOnce ==
    [][/\ (pc = "loop" /\ pc' = "poll") =>
              /\ watched_traders' = watched_traders
              /\ config_file' = config_file
              /\ Len(traders_to_check') = Len(watched_traders)
              /\ \A i \in 1..Len(watched_traders) :
                     Cardinality({j \in 1..Len(traders_to_check') :
                                     traders_to_check'[j] = watched_traders[i]}) = 1
       /\ FromPoll =>
              /\ traders_to_check' = Tail(traders_to_check)
              /\ \A a \in DOMAIN last_check_time :
                     a # Head(traders_to_check) => last_check_time'[a] = last_check_time[a]
       /\ (pc \in {"process", "execute"} /\ pc' \notin {"init", "error"}) =>
              traders_to_check' = traders_to_check
       /\ pc' = "sleep" => traders_to_check' = <<>>]_vars

\* C36 witness: of the watch list <<1, 2>> the cycle has polled address 2 first,
\* and address 1 is left
C36_Witness ==
    /\ pc = "poll"
    /\ watched_traders = <<1, 2>>
    /\ traders_to_check = <<1>>
    /\ last_check_time[2] = now
    /\ last_check_time[1] < now

\* C37: no step takes a market or an entry out of the ledger or changes an
\* entry; the ledger changes only when a copy is executed, and then the list of
\* the market of that copy gets one entry more, the copy's, at its end, and the
\* list of every other market is as it was.
C37_LedgerAppendOnly ==
    [][/\ \A m \in DOMAIN trade_history :
              /\ m \in DOMAIN trade_history'
              /\ Len(trade_history'[m]) >= Len(trade_history[m])
              /\ SubSeq(trade_history'[m], 1, Len(trade_history[m])) = trade_history[m]
       /\ trade_history' # trade_history =>
              /\ pc = "execute"
              /\ DOMAIN trade_history' = DOMAIN trade_history \cup {analysis.market_id}
              /\ Len(Ledger') = Len(Ledger) + 1
              /\ \A m \in DOMAIN trade_history \ {analysis.market_id} :
                     trade_history'[m] = trade_history[m]
              /\ LET entries == trade_history'[analysis.market_id]
                 IN /\ entries[Len(entries)].market_id = analysis.market_id
                    /\ entries[Len(entries)].original_trade = analysis.original_trade]_vars

\* C37 witness: the copy of a trade of market m2 was recorded when the ledger
\* held a copy of market m1
C37_Witness ==
    /\ result \in OrderIds
    /\ order.token_id = "y2"
    /\ DOMAIN trade_history = {"m1", "m2"}
    /\ Len(trade_history["m1"]) = 1
    /\ Len(trade_history["m2"]) = 1

\* C38: a poll leaves no trade behind its cursor: every trade of the polled
\* address that the exchange holds when the cursor is stored, that was made
\* after the cursor the poll asked with and is not after the cursor it stores
\* (so that no later poll asks for it), is among the trades the poll returned.
C38_NoTradeBehindCursor ==
    [][FromPoll =>
          LET trader == Head(traders_to_check)
          IN \A i \in 1..Len(TradeList) :
                 (/\ trader \in DOMAIN last_check_time
                  /\ trader \in {TradeList[i].maker_address, TradeList[i].taker}
                  /\ TradeList[i].id \in DOMAIN trade_time'
                  /\ trade_time'[TradeList[i].id] > last_check_time[trader]
                  /\ trade_time'[TradeList[i].id] <= last_check_time'[trader])
                     => \E j \in 1..Len(recent_trades') : recent_trades'[j] = TradeList[i]]_vars

\* C39: every watched address has a check time, and only watched addresses
\* are polled; removing a watched address takes it and its check time away,
\* from the list in memory and from the one in the configuration file, and
\* leaves the other addresses and their check times as they were; removing an
\* address that is not watched changes nothing.
C39_RemoveForgets ==
    /\ [](/\ \A i \in 1..Len(watched_traders) : watched_traders[i] \in DOMAIN last_check_time
          /\ \A i \in 1..Len(traders_to_check) :
                 InList(traders_to_check[i], watched_traders))
    /\ [][\A a \in Addresses :
             RemoveTrader(a) =>
                 IF InList(a, watched_traders)
                 THEN /\ ~InList(a, watched_traders')
                      /\ ~InList(a, config_file')
                      /\ a \notin DOMAIN last_check_time'
                      /\ watched_traders' = SelectSeq(watched_traders, LAMBDA b : b # a)
                      /\ config_file' = watched_traders'
                      /\ \A b \in DOMAIN last_check_time \ {a} :
                             /\ b \in DOMAIN last_check_time'
                             /\ last_check_time'[b] = last_check_time[b]
                 ELSE UNCHANGED vars]_vars

\* C39 witness: addresses 1 and 2 are watched, in memory and in the
\* configuration file, each with a check time, that of address 1 set when the
\* clock read 1, and address 1 is about to be removed
C39_Witness ==
    /\ pc = "init"
    /\ watched_traders = <<1, 2>>
    /\ config_file = <<1, 2>>
    /\ DOMAIN last_check_time = {1, 2}
    /\ now = 1
    /\ last_check_time[1] = InitialCheckTime
    /\ ENABLED RemoveTrader(1)

\* the checks of lines 411 and 418: monitor_traders is entered, or a cycle begins
RefreshCheck ==
    /\ now' = now
    /\ \/ pc = "init" /\ pc' = "loop"
       \/ pc = "loop" /\ pc' \in {"loop", "poll"}

\* C40: the loop changes the watch list, the check times, the cache files and
\* the time of the last update only at its checks, and there only when
\* auto_update_traders is set and either no update was recorded or the clock
\* reads update_interval_hours or more past the recorded one; it then records
\* the time the clock reads, also when analytics is not enabled and the update
\* changes nothing.
C40_RefreshRateLimited ==
    [][/\ RefreshCheck =>
              IF /\ config.analytics.auto_update_traders
                 /\ \/ last_traders_update = NoUpdate
                    \/ now - last_traders_update >= config.analytics.update_interval_hours
              THEN /\ last_traders_update' = now
                   /\ ~config.analytics.enabled =>
                          UNCHANGED <<watched_traders, last_check_time, cache, config_file>>
              ELSE UNCHANGED <<watched_traders, cache, last_traders_update, config_file>>
       /\ ~RefreshCheck => last_traders_update' = last_traders_update]_vars

\* C40 witness: with auto_update_traders set and analytics not enabled the loop
\* has recorded an update at the time the clock reads, an hour after it was
\* constructed, and no cache file was written
C40_Witness ==
    /\ pc = "loop"
    /\ config.analytics.auto_update_traders
    /\ ~config.analytics.enabled
    /\ now = 1
    /\ last_traders_update = now
    /\ \A src \in Sources : cache[src] = NoCache

=============================================================================
